---- MODULE Spec2Model ----
(***************************************************************************)
(* Model of sysup's update_system (src/main.py): the backup / pre-hook /   *)
(* execution / post-hook / notification pipeline, the sequential and the   *)
(* ThreadPoolExecutor execution modes, and the adapters it drives.         *)
(***************************************************************************)
EXTENDS Integers, Sequences, FiniteSets, TLC

\* Bound on the number of tracked repositories read by _load_repos.
MaxRepos == 2

\* Faulty variant of Sources: the helper list is written paru first.
SourcesParuFirst == <<"pacman", "paru", "yay", "flatpak">>

\* The pooled adapters in the order update_system creates them.
Sources == <<"pacman", "yay", "paru", "flatpak">>

SourceSet == {"pacman", "yay", "paru", "flatpak"}

\* Programs whose presence on the host the code probes with Utils.has_helper.
Programs == {"checkupdates", "yay", "paru", "flatpak"}

\* Bound on the failures met in one run: failing update commands,
\* exceptions, hanging commands, slow commands, a failing backup and
\* failing hook scripts.
MaxFaults == 1

\* Number of executable scripts in each hook directory.
MaxScripts == 2

\* Names of the tracked repositories, in list order.
RepoNames == <<"repo1", "repo2", "repo3", "repo4">>

\* The component labels record_update can be called with.
Components == SourceSet \cup {RepoNames[k] : k \in 1..Len(RepoNames)}

\* Keys of the update_results dictionary.
Keys == {"pacman", "aur", "flatpak", "git_repos"}

VARIABLES
    pc,             \* position of the main thread in update_system
    user_config,    \* the UserConfig fields update_system reads
    dry_run,        \* the dry_run argument
    host,           \* programs shutil.which finds on the host
    repos,          \* number of tracked repository paths in the repos file
    update_results, \* the update_results dictionary
    idx,            \* index of the source being handled / future being collected
    futures,        \* the futures list (names, in submission order)
    ast,            \* per adapter: progress of its update() call
    ret,            \* per adapter: what its update() call produced
    fres,           \* per future: what future.result(timeout=600) produced
    repoIdx,        \* update_all: index of the repository being visited
    updated_count,  \* update_all: updated_count
    backups,        \* number of create_backup invocations
    hooks,          \* run_hooks invocations, in order
    sent,           \* number of notification_manager.send invocations
    checked,        \* pooled adapters whose has_updates was invoked
    applied,        \* pooled adapters whose update command was run
    preview,        \* sources for which "Would update" was printed
    stats,          \* per component: number of record_update invocations
    faults,         \* failures met so far (bounded by MaxFaults)
    pending,        \* components whose check reported updates available
    rst,            \* update_all: progress of the current repository's update
    run,            \* number of the update_system invocation
    hookIdx,        \* run_hooks: index of the script to run next (0: not in it)
    bfail,          \* best-effort steps that met a failure in this run
    stats_file,     \* contents of the statistics file
    stats_before,   \* its contents before the first record_update call
    wst,            \* per pooled adapter: progress of its record_update call
    wloc,           \* per pooled adapter: the "stats" local of that call
    clock,          \* number of history entries stamped so far
    repo_list,      \* the 'repositories' list in the repos file
    last_call       \* the last two add_repo / remove_repo calls

vars == <<pc, user_config, dry_run, host, repos, update_results, idx, futures,
          ast, ret, fres, repoIdx, updated_count, backups, hooks, sent,
          checked, applied, preview, stats, faults, pending, rst, run, hookIdx,
          bfail, stats_file, stats_before, wst, wloc, clock, repo_list,
          last_call>>

\* What update_system reads and writes, as far as it is followed here.
runVars == <<pc, user_config, dry_run, host, repos, update_results, idx,
             futures, ast, ret, fres, repoIdx, updated_count, backups, hooks,
             sent, checked, applied, preview, stats, faults, pending, rst, run,
             hookIdx, bfail>>

\* The statistics file, the record_update calls in progress, and the
\* repos file.
storeVars == <<stats_file, stats_before, wst, wloc, clock, repo_list,
               last_call>>

ConfigSet == [enable_pacman : BOOLEAN, enable_aur : BOOLEAN,
              enable_flatpak : BOOLEAN, enable_git_repos : BOOLEAN,
              enable_backups : BOOLEAN, parallel_updates : BOOLEAN]

\* Utils.has_helper: shutil.which(helper) is not None.
has_helper(p) == p \in host

\* Faulty variant of UseParallel: the "and not dry_run" is forgotten.
UseParallelNoDryTest == user_config.parallel_updates

\* The branch condition that selects the thread-pool mode.
UseParallel == user_config.parallel_updates /\ ~dry_run

\* Faulty variant of Selected: flatpak is not probed with has_helper.
SelectedNoProbe(s) ==
    CASE s = "pacman"  -> user_config.enable_pacman
      [] s = "yay"     -> user_config.enable_aur /\ has_helper("yay")
      [] s = "paru"    -> user_config.enable_aur /\ has_helper("paru")
      [] s = "flatpak" -> user_config.enable_flatpak

\* The condition under which update_system creates and runs the adapter s.
Selected(s) ==
    CASE s = "pacman"  -> user_config.enable_pacman
      [] s = "yay"     -> user_config.enable_aur /\ has_helper("yay")
      [] s = "paru"    -> user_config.enable_aur /\ has_helper("paru")
      [] s = "flatpak" -> user_config.enable_flatpak /\ has_helper("flatpak")

\* PacmanManager.__init__ raises RuntimeError when checkupdates is missing;
\* the other managers' constructors cannot raise.
CtorRaises(s) == s = "pacman" /\ ~has_helper("checkupdates")

\* The update_results key an adapter's result is stored under.
KeyOf(s) == IF s \in {"yay", "paru"} THEN "aur" ELSE s

\* Faulty variant of MergeResult: a helper's result overwrites the "aur"
\* entry instead of being or-ed into it.
MergeResultOverwrite(res, s, r) == [res EXCEPT ![KeyOf(s)] = r]

\* Faulty variant of MergeResult: the helpers' results are and-ed.
MergeResultAnd(res, s, r) ==
    IF s \in {"yay", "paru"}
    THEN [res EXCEPT !["aur"] = r /\ res["aur"]]
    ELSE [res EXCEPT ![s] = r]

\* Storing one adapter's boolean result in update_results.
MergeResult(res, s, r) ==
    IF s \in {"yay", "paru"}
    THEN [res EXCEPT !["aur"] = r \/ res["aur"]]
    ELSE [res EXCEPT ![s] = r]

\* Faulty variant of total_updates: the repositories count as one source.
total_updates_flags(res) ==
    (IF res["pacman"] THEN 1 ELSE 0) + (IF res["aur"] THEN 1 ELSE 0)
    + (IF res["flatpak"] THEN 1 ELSE 0)
    + (IF res["git_repos"] > 0 THEN 1 ELSE 0)

\* The total the notification step computes.
total_updates(res) ==
    (IF res["pacman"] THEN 1 ELSE 0) + (IF res["aur"] THEN 1 ELSE 0)
    + (IF res["flatpak"] THEN 1 ELSE 0) + res["git_repos"]

\* Faulty variant of record_update: nothing is recorded.
record_update_none(st, c) == st

\* StatisticsManager.record_update(component): one more recorded update.
record_update(st, c) == [st EXCEPT ![c] = @ + 1]

(***************************************************************************)
(* StatisticsManager: the statistics file                                  *)
(***************************************************************************)

\* "Keep only last 100 history entries".
HistoryCap == 100

\* What _load_stats returns when there is no file.
DefaultStats == [total_updates |-> 0, update_history |-> <<>>]

\* The statistics file when it does not exist.
NoStatsFile == [exists |-> FALSE, total_updates |-> 0, update_history |-> <<>>]

\* StatisticsManager._load_stats.
load_stats(f) ==
    IF ~f.exists THEN DefaultStats
    ELSE [total_updates |-> f.total_updates,
          update_history |-> f.update_history]

\* StatisticsManager._save_stats: the file is rewritten as a whole.
save_stats(st) ==
    [exists |-> TRUE, total_updates |-> st.total_updates,
     update_history |-> st.update_history]

\* The slice h[-n:].
LastN(h, n) == IF Len(h) <= n THEN h ELSE SubSeq(h, Len(h) - n + 1, Len(h))

\* Faulty variant of StatsAfter: the total is taken from the history.
StatsAfterCapped(st, c, ts) ==
    [total_updates |->
         Len(LastN(Append(st.update_history,
                          [component |-> c, timestamp |-> ts]), HistoryCap)),
     update_history |->
         LastN(Append(st.update_history,
                      [component |-> c, timestamp |-> ts]), HistoryCap)]

\* The body of record_update between its load and its save: one more
\* update, one more history entry, the history cut to its last entries.
StatsAfter(st, c, ts) ==
    [total_updates |-> st.total_updates + 1,
     update_history |->
         LastN(Append(st.update_history,
                      [component |-> c, timestamp |-> ts]), HistoryCap)]

\* A history of n entries written before the calls that are followed.
OldEntries(n) == [i \in 1..n |-> [component |-> "pacman", timestamp |-> i - n]]

\* Statistics files a sequence of calls can start from: none, an empty
\* one, one just under the history limit and one at it, with a total that
\* counts the entries still listed and possibly some dropped earlier.
InitialFiles ==
    {NoStatsFile} \cup
    {[exists |-> TRUE, total_updates |-> n, update_history |-> OldEntries(n)] :
         n \in {0, HistoryCap - 1, HistoryCap}} \cup
    {[exists |-> TRUE, total_updates |-> 2 * HistoryCap,
      update_history |-> OldEntries(HistoryCap)]}

(***************************************************************************)
(* RepositoryManager: the repos file                                       *)
(***************************************************************************)

\* Paths as the user types them.
RawPaths == {"/src/a", "/src/a/.", "~/b", "/home/u/b", "/src/plain",
             "/src/gone"}

\* str(Path(p).expanduser().resolve()).
resolve(p) ==
    CASE p = "/src/a/." -> "/src/a"
      [] p = "~/b" -> "/home/u/b"
      [] OTHER -> p

\* Paths that exist and hold a .git directory: GitRepository(p) does not
\* raise ValueError.
Checkouts == {"/src/a", "/home/u/b"}

\* list.remove(x): the list without the first occurrence of x.
RECURSIVE list_remove(_, _)
list_remove(l, x) ==
    IF l = <<>> THEN <<>>
    ELSE IF Head(l) = x THEN Tail(l)
    ELSE <<Head(l)>> \o list_remove(Tail(l), x)

\* x in l.
InList(x, l) == \E i \in 1..Len(l) : l[i] = x

\* Faulty variant of add_repo: the membership test uses the path as typed.
add_repo_raw(l, p) ==
    IF resolve(p) \notin Checkouts THEN l
    ELSE IF InList(p, l) THEN l
    ELSE Append(l, resolve(p))

\* RepositoryManager.add_repo: the list it leaves in the repos file.
add_repo(l, p) ==
    IF resolve(p) \notin Checkouts THEN l
    ELSE IF InList(resolve(p), l) THEN l
    ELSE Append(l, resolve(p))

\* RepositoryManager.remove_repo: the list it leaves in the repos file.
remove_repo(l, p) ==
    IF ~InList(resolve(p), l) THEN l
    ELSE list_remove(l, resolve(p))

\* Duplicate-free lists of normalised paths.
RECURSIVE ListsOver(_)
ListsOver(S) ==
    {<<>>} \cup UNION {{<<x>> \o l : l \in ListsOver(S \ {x})} : x \in S}

InitialLists == ListsOver({resolve(p) : p \in RawPaths})

\* No add_repo or remove_repo call was made yet.
NoCall == [op |-> "none", path |-> "", before |-> <<>>,
           prev_op |-> "none", prev_path |-> "", prev_before |-> <<>>]

\* The record of a call o(p) made on list l after the call recorded in c.
CallRecord(o, p, l, c) ==
    [op |-> o, path |-> p, before |-> l,
     prev_op |-> c.op, prev_path |-> c.path, prev_before |-> c.before]

\* No record_update call in progress, no call on the repos file made.
StoreIdle ==
    /\ stats_file = NoStatsFile
    /\ stats_before = NoStatsFile
    /\ wst = [s \in SourceSet |-> "none"]
    /\ wloc = [s \in SourceSet |-> DefaultStats]
    /\ clock = 0
    /\ repo_list = <<>>
    /\ last_call = NoCall

\* The run reads has_helper only for the programs of enabled sources, and
\* the repository list only when repositories are enabled; what it never
\* reads is fixed (program present, list full) instead of enumerated.
Relevant(cfg, h, n) ==
    /\ ~cfg.enable_pacman => "checkupdates" \in h
    /\ ~cfg.enable_aur => {"yay", "paru"} \subseteq h
    /\ ~cfg.enable_flatpak => "flatpak" \in h
    /\ ~cfg.enable_git_repos => n = MaxRepos

\* update_system is about to start.
UpdateInit ==
    /\ pc = "backup"
    /\ user_config \in ConfigSet
    /\ dry_run \in BOOLEAN
    /\ host \in SUBSET Programs
    /\ repos \in 0..MaxRepos
    /\ Relevant(user_config, host, repos)
    /\ update_results = [k \in Keys |-> IF k = "git_repos" THEN 0 ELSE FALSE]
    /\ idx = 1
    /\ futures = <<>>
    /\ ast = [s \in SourceSet |-> "none"]
    /\ ret = [s \in SourceSet |-> "none"]
    /\ fres = [s \in SourceSet |-> "none"]
    /\ repoIdx = 0
    /\ updated_count = 0
    /\ backups = 0
    /\ hooks = <<>>
    /\ sent = 0
    /\ checked = {}
    /\ applied = {}
    /\ preview = {}
    /\ stats = [c \in Components |-> 0]
    /\ faults = 0
    /\ pending = {}
    /\ rst = "idle"
    /\ run = 1
    /\ hookIdx = 0
    /\ bfail = {}

Init == UpdateInit /\ StoreIdle


(***************************************************************************)
(* Adapters: PacmanManager.update, AURManager.update, FlatpakManager.update *)
(***************************************************************************)

\* An adapter's update() runs in the main thread in sequential mode (the
\* main thread is inside the call) and in a pool worker in parallel mode.
Running(s) ==
    IF UseParallel THEN TRUE ELSE pc = "seq_run" /\ Sources[idx] = s

\* What has_updates can do: exit status 0 ("avail"), CalledProcessError
\* ("uptodate", caught, returns False), or another exception ("raise").
CheckOutcomes == {"avail", "uptodate", "raise"}

\* What the update command can do: exit status 0, CalledProcessError
\* (caught, returns False), or another exception.
ApplyOutcomes == {"ok", "nonzero", "raise"}

\* Faulty variant of AdapterCheck: the result of has_updates is ignored and
\* the update command is run whatever the check reported.
AdapterCheckIgnored(s) ==
    /\ ast[s] = "check"
    /\ Running(s)
    /\ checked' = checked \cup {s}
    /\ \E o \in CheckOutcomes :
         /\ o = "raise" => faults < MaxFaults
         /\ faults' = IF o = "raise" THEN faults + 1 ELSE faults
         /\ pending' = IF o = "avail" THEN pending \cup {s} ELSE pending
         /\ ast' = [ast EXCEPT ![s] = IF o = "raise" THEN "done" ELSE "apply"]
         /\ ret' = [ret EXCEPT ![s] = IF o = "raise" THEN "exc" ELSE "none"]
    /\ UNCHANGED <<storeVars, pc, user_config, dry_run, host, repos, update_results, idx,
                   futures, fres, repoIdx, updated_count, backups, hooks,
                   sent, applied, preview, stats, rst, run, hookIdx, bfail>>

\* update(): "if not self.has_updates(): return False".
AdapterCheck(s) ==
    /\ ast[s] = "check"
    /\ Running(s)
    /\ checked' = checked \cup {s}
    /\ \E o \in CheckOutcomes :
         /\ o = "raise" => faults < MaxFaults
         /\ faults' = IF o = "raise" THEN faults + 1 ELSE faults
         /\ pending' = IF o = "avail" THEN pending \cup {s} ELSE pending
         /\ ast' = [ast EXCEPT ![s] = IF o = "avail" THEN "apply" ELSE "done"]
         /\ ret' = [ret EXCEPT ![s] = CASE o = "avail"    -> "none"
                                        [] o = "uptodate" -> "false"
                                        [] o = "raise"    -> "exc"]
    /\ UNCHANGED <<storeVars, pc, user_config, dry_run, host, repos, update_results, idx,
                   futures, fres, repoIdx, updated_count, backups, hooks,
                   sent, applied, preview, stats, rst, run, hookIdx, bfail>>

\* update(): the update command, record_update on success, the return value.
AdapterApply(s) ==
    /\ ast[s] = "apply"
    /\ Running(s)
    /\ applied' = applied \cup {s}
    /\ \E o \in ApplyOutcomes :
         /\ o # "ok" => faults < MaxFaults
         /\ faults' = IF o # "ok" THEN faults + 1 ELSE faults
         /\ ast' = [ast EXCEPT ![s] = "done"]
         /\ ret' = [ret EXCEPT ![s] = CASE o = "ok"      -> "true"
                                        [] o = "nonzero" -> "false"
                                        [] o = "raise"   -> "exc"]
         /\ stats' = IF o = "ok" THEN record_update(stats, s) ELSE stats
    /\ UNCHANGED <<storeVars, pc, user_config, dry_run, host, repos, update_results, idx,
                   futures, fres, repoIdx, updated_count, backups, hooks,
                   sent, checked, preview, pending, rst, run, hookIdx, bfail>>

\* The update command is started and never returns (subprocess.run without
\* a timeout).
AdapterHang(s) ==
    /\ ast[s] = "apply"
    /\ Running(s)
    /\ faults < MaxFaults
    /\ faults' = faults + 1
    /\ applied' = applied \cup {s}
    /\ ast' = [ast EXCEPT ![s] = "hung"]
    /\ UNCHANGED <<storeVars, pc, user_config, dry_run, host, repos, update_results, idx,
                   futures, ret, fres, repoIdx, updated_count, backups, hooks,
                   sent, checked, preview, stats, pending, rst, run, hookIdx, bfail>>

(***************************************************************************)
(* update_system: backup and pre-update hooks                              *)
(***************************************************************************)

\* Faulty variant of BackupWanted: the "and not dry_run" is missing.
BackupWantedDryToo == user_config.enable_backups

\* "if user_config.enable_backups and not dry_run: create_backup()".
BackupWanted == user_config.enable_backups /\ ~dry_run

\* "if not dry_run: hook_manager.run_hooks(...)".
HooksWanted == ~dry_run

\* The phase name update_system passes to its first run_hooks call.
PreHookName == "pre-update"

\* Faulty variant of PostHookName: the first call is pasted unchanged.
PostHookNamePasted == "pre-update"

\* The phase name update_system passes to its second run_hooks call.
PostHookName == "post-update"

\* What create_backup can do: write the package list, or fail (pacman -Qqe
\* or the write raises; caught and logged, create_backup returns None).
BackupOutcomes == {"created", "failed"}

\* What one hook script can do in run_hooks: exit with status 0, exit
\* non-zero, run into the 300 second timeout (TimeoutExpired, caught), or
\* fail to start (another exception, caught).
HookOutcomes == {"ok", "nonzero", "timeout", "error"}

\* Faulty variant of AfterHook: a script that cannot be executed is not
\* caught in run_hooks and reaches the handler of update_system.
AfterHookUncaught(o, p) == IF o = "error" THEN "error" ELSE p

\* Where run_hooks is after a script with outcome o: every branch of the
\* loop body, the two except branches included, goes on with the loop.
AfterHook(o, p) == p

Backup ==
    /\ pc = "backup"
    /\ IF BackupWanted
       THEN /\ backups' = backups + 1
            /\ \E o \in BackupOutcomes :
                 /\ o = "failed" => faults < MaxFaults
                 /\ faults' = IF o = "failed" THEN faults + 1 ELSE faults
                 /\ bfail' = IF o = "failed" THEN bfail \cup {"backup"}
                             ELSE bfail
       ELSE UNCHANGED <<backups, faults, bfail>>
    /\ pc' = "prehook"
    /\ UNCHANGED <<storeVars, user_config, dry_run, host, repos, update_results, idx,
                   futures, ast, ret, fres, repoIdx, updated_count, hooks,
                   sent, checked, applied, preview, stats,
                   pending, rst, run, hookIdx>>

\* "if not dry_run: hook_manager.run_hooks("pre-update")": run_hooks is
\* entered, or the step is passed over.
PreHook ==
    /\ pc = "prehook"
    /\ hookIdx = 0
    /\ IF HooksWanted
       THEN hookIdx' = 1 /\ pc' = pc
       ELSE hookIdx' = 0 /\ pc' = (IF UseParallel THEN "submit" ELSE "seq")
    /\ idx' = 1
    /\ UNCHANGED <<storeVars, user_config, dry_run, host, repos, update_results,
                   futures, ast, ret, fres, repoIdx, updated_count, backups,
                   hooks, sent, checked, applied, preview, stats, faults,
                   pending, rst, run, bfail>>

\* The phase name of the run_hooks call in progress.
HookPhase == IF pc = "prehook" THEN PreHookName ELSE PostHookName

\* One iteration of "for script in executable_scripts".
HookScript ==
    /\ pc \in {"prehook", "posthook"}
    /\ hookIdx \in 1..MaxScripts
    /\ \E o \in HookOutcomes :
         /\ o # "ok" => faults < MaxFaults
         /\ faults' = IF o # "ok" THEN faults + 1 ELSE faults
         /\ bfail' = IF o # "ok" THEN bfail \cup {HookPhase} ELSE bfail
         /\ pc' = AfterHook(o, pc)
    /\ hookIdx' = hookIdx + 1
    /\ UNCHANGED <<storeVars, user_config, dry_run, host, repos, update_results, idx,
                   futures, ast, ret, fres, repoIdx, updated_count, backups,
                   hooks, sent, checked, applied, preview, stats,
                   pending, rst, run>>

\* run_hooks returns to update_system.
HookDone ==
    /\ pc \in {"prehook", "posthook"}
    /\ hookIdx = MaxScripts + 1
    /\ hooks' = Append(hooks, HookPhase)
    /\ hookIdx' = 0
    /\ pc' = IF pc = "posthook" THEN "notify"
             ELSE IF UseParallel THEN "submit" ELSE "seq"
    /\ UNCHANGED <<storeVars, user_config, dry_run, host, repos, update_results, idx,
                   futures, ast, ret, fres, repoIdx, updated_count, backups,
                   sent, checked, applied, preview, stats, faults,
                   pending, rst, run, bfail>>


(***************************************************************************)
(* update_system: parallel execution (ThreadPoolExecutor)                  *)
(***************************************************************************)

NSources == Len(Sources)

\* The registry step of the with-block for the source at idx: the adapter is
\* created and its update submitted to the pool (a worker starts running
\* it), or the source is passed over.
Submit ==
    /\ pc = "submit"
    /\ idx <= NSources
    /\ LET s == Sources[idx] IN
         IF Selected(s)
         THEN IF CtorRaises(s)
              THEN /\ pc' = "error"
                   /\ UNCHANGED <<idx, futures, ast>>
              ELSE /\ futures' = Append(futures, s)
                   /\ ast' = [ast EXCEPT ![s] = "check"]
                   /\ idx' = idx + 1
                   /\ pc' = pc
         ELSE /\ idx' = idx + 1
              /\ UNCHANGED <<pc, futures, ast>>
    /\ UNCHANGED <<storeVars, user_config, dry_run, host, repos, update_results, ret,
                   fres, repoIdx, updated_count, backups, hooks, sent,
                   checked, applied, preview, stats, faults, pending, rst, run,
                   pending, rst, run, hookIdx, bfail>>

\* All sources handled: the "for name, future in futures" loop starts.
SubmitDone ==
    /\ pc = "submit"
    /\ idx > NSources
    /\ pc' = "collect"
    /\ idx' = 1
    /\ UNCHANGED <<storeVars, user_config, dry_run, host, repos, update_results,
                   futures, ast, ret, fres, repoIdx, updated_count, backups,
                   hooks, sent, checked, applied, preview, stats, faults,
                   pending, rst, run, hookIdx, bfail>>

\* Faulty variant of CollectResult: a re-raised exception is stored as a
\* successful update.
CollectResultExcAsTrue(res, s, r) == MergeResult(res, s, r \in {"true", "exc"})

\* What the body of the collecting loop does with a returned result.
CollectResult(res, s, r) ==
    IF r = "exc" THEN res ELSE MergeResult(res, s, r = "true")

\* Faulty variant of AfterCollect: a re-raised exception is not caught in
\* the loop and reaches the handler of update_system.
AfterCollectUncaught(r) == IF r = "exc" THEN "error" ELSE "collect"

\* Where the loop goes after a future produced r: the "except Exception"
\* branch logs a re-raised exception and the loop goes on.
AfterCollect(r) == "collect"

\* future.result(timeout=600) returns or re-raises what the worker produced.
Collect ==
    /\ pc = "collect"
    /\ idx <= Len(futures)
    /\ LET s == futures[idx] IN
         /\ ast[s] = "done"
         /\ fres' = [fres EXCEPT ![s] = ret[s]]
         /\ update_results' = CollectResult(update_results, s, ret[s])
         /\ pc' = AfterCollect(ret[s])
    /\ idx' = idx + 1
    /\ UNCHANGED <<storeVars, user_config, dry_run, host, repos, futures, ast, ret,
                   repoIdx, updated_count, backups, hooks, sent, checked,
                   applied, preview, stats, faults, pending, rst, run, hookIdx, bfail>>

\* Faulty variant of TimeoutResult: the timed-out adapter is stored as updated.
TimeoutResultAsTrue(res, s) == MergeResult(res, s, TRUE)

\* What the "except Exception" branch does on a timeout: it logs, and
\* leaves update_results and the future as they are.
TimeoutResult(res, s) == res

\* future.result(timeout=600) raises TimeoutError: the worker has not
\* finished when the 600 seconds are over, because its command hangs or
\* because it is slow (which counts as one more fault).
CollectTimeout ==
    /\ pc = "collect"
    /\ idx <= Len(futures)
    /\ LET s == futures[idx] IN
         /\ ast[s] # "done"
         /\ ast[s] # "hung" => faults < MaxFaults
         /\ faults' = IF ast[s] = "hung" THEN faults ELSE faults + 1
         /\ fres' = [fres EXCEPT ![s] = "timeout"]
         /\ update_results' = TimeoutResult(update_results, s)
    /\ idx' = idx + 1
    /\ UNCHANGED <<storeVars, pc, user_config, dry_run, host, repos, futures, ast, ret,
                   repoIdx, updated_count, backups, hooks, sent, checked,
                   applied, preview, stats, pending, rst, run, hookIdx, bfail>>

\* The loop is over: control reaches the end of the with-block.
CollectDone ==
    /\ pc = "collect"
    /\ idx > Len(futures)
    /\ pc' = "pool_exit"
    /\ UNCHANGED <<storeVars, user_config, dry_run, host, repos, update_results, idx,
                   futures, ast, ret, fres, repoIdx, updated_count, backups,
                   hooks, sent, checked, applied, preview, stats, faults,
                   pending, rst, run, hookIdx, bfail>>

\* Faulty variant of PoolIdle: the pool is left with shutdown(wait=False).
PoolNotJoined == TRUE

\* ThreadPoolExecutor.__exit__ is shutdown(wait=True): it joins the workers.
PoolIdle == \A s \in SourceSet : ast[s] \in {"none", "done"}

PoolExit ==
    /\ pc = "pool_exit"
    /\ PoolIdle
    /\ pc' = "git"
    /\ UNCHANGED <<storeVars, user_config, dry_run, host, repos, update_results, idx,
                   futures, ast, ret, fres, repoIdx, updated_count, backups,
                   hooks, sent, checked, applied, preview, stats, faults,
                   pending, rst, run, hookIdx, bfail>>

(***************************************************************************)
(* update_system: sequential execution                                     *)
(***************************************************************************)

\* The sequential branch for the source at idx: pass over, fail in the
\* constructor, print the dry-run line, or call update().
SeqStep ==
    /\ pc = "seq"
    /\ idx <= NSources
    /\ LET s == Sources[idx] IN
         IF ~Selected(s)
         THEN /\ idx' = idx + 1
              /\ UNCHANGED <<pc, ast, preview>>
         ELSE IF CtorRaises(s)
         THEN /\ pc' = "error"
              /\ UNCHANGED <<idx, ast, preview>>
         ELSE IF dry_run
         THEN /\ preview' = preview \cup {s}
              /\ idx' = idx + 1
              /\ UNCHANGED <<pc, ast>>
         ELSE /\ ast' = [ast EXCEPT ![s] = "check"]
              /\ pc' = "seq_run"
              /\ UNCHANGED <<idx, preview>>
    /\ UNCHANGED <<storeVars, user_config, dry_run, host, repos, update_results,
                   futures, ret, fres, repoIdx, updated_count, backups,
                   hooks, sent, checked, applied, stats, faults,
                   pending, rst, run, hookIdx, bfail>>

\* update() returned to update_system, or raised into its "except Exception".
SeqReturn ==
    /\ pc = "seq_run"
    /\ LET s == Sources[idx] IN
         /\ ast[s] = "done"
         /\ IF ret[s] = "exc"
            THEN /\ pc' = "error"
                 /\ UNCHANGED <<idx, update_results>>
            ELSE /\ update_results' = MergeResult(update_results, s, ret[s] = "true")
                 /\ idx' = idx + 1
                 /\ pc' = "seq"
    /\ UNCHANGED <<storeVars, user_config, dry_run, host, repos, futures, ast, ret,
                   fres, repoIdx, updated_count, backups, hooks, sent,
                   checked, applied, preview, stats, faults, pending, rst, run,
                   pending, rst, run, hookIdx, bfail>>

SeqDone ==
    /\ pc = "seq"
    /\ idx > NSources
    /\ pc' = "git"
    /\ UNCHANGED <<storeVars, user_config, dry_run, host, repos, update_results, idx,
                   futures, ast, ret, fres, repoIdx, updated_count, backups,
                   hooks, sent, checked, applied, preview, stats, faults,
                   pending, rst, run, hookIdx, bfail>>


(***************************************************************************)
(* RepositoryManager.update_all and the source-checkout step               *)
(***************************************************************************)

\* What one iteration of update_all can meet up to has_new_commits: a path
\* that does not exist, a path GitRepository rejects (ValueError), no new
\* commits (or a failing fetch, caught by has_new_commits), new commits, or
\* another exception (caught by update_all).
RepoOutcomes == {"missing", "invalid", "uptodate", "commits", "raise"}

\* What "git pull" can do: succeed, fail (CalledProcessError, caught by
\* GitRepository.update), or raise another exception (caught by update_all).
PullOutcomes == {"updated", "failed", "raise"}

\* The source-checkout step of either branch: skip, print the dry-run
\* lines (sequential branch only), or enter update_all.
GitStart ==
    /\ pc = "git"
    /\ IF ~user_config.enable_git_repos
       THEN /\ pc' = "posthook"
            /\ UNCHANGED <<preview, repoIdx, updated_count>>
       ELSE IF ~UseParallel /\ dry_run
       THEN /\ preview' = preview \cup {RepoNames[k] : k \in 1..repos}
            /\ pc' = "posthook"
            /\ UNCHANGED <<repoIdx, updated_count>>
       ELSE /\ pc' = "git_loop"
            /\ repoIdx' = 1
            /\ updated_count' = 0
            /\ UNCHANGED preview
    /\ UNCHANGED <<storeVars, user_config, dry_run, host, repos, update_results, idx,
                   futures, ast, ret, fres, backups, hooks, sent,
                   checked, applied, stats, faults, pending, rst, run, hookIdx, bfail>>

\* Faulty variant of GitRepo: an invalid checkout ends the loop.
GitRepoAborts ==
    /\ pc = "git_loop"
    /\ repoIdx <= repos
    /\ rst = "idle"
    /\ \E o \in RepoOutcomes :
         /\ o = "raise" => faults < MaxFaults
         /\ faults' = IF o = "raise" THEN faults + 1 ELSE faults
         /\ pending' = IF o = "commits"
                       THEN pending \cup {RepoNames[repoIdx]} ELSE pending
         /\ rst' = IF o = "commits" THEN "pull" ELSE "idle"
         /\ repoIdx' = IF o = "commits" THEN repoIdx
                        ELSE IF o = "invalid" THEN repos + 1
                        ELSE repoIdx + 1
    /\ UNCHANGED <<storeVars, pc, user_config, dry_run, host, repos, update_results, idx,
                   futures, ast, ret, fres, updated_count, backups, hooks,
                   sent, checked, applied, preview, stats, run, hookIdx, bfail>>

\* One iteration of "for repo_path in repos", up to the result of
\* has_new_commits in GitRepository.update.
GitRepo ==
    /\ pc = "git_loop"
    /\ repoIdx <= repos
    /\ rst = "idle"
    /\ \E o \in RepoOutcomes :
         /\ o = "raise" => faults < MaxFaults
         /\ faults' = IF o = "raise" THEN faults + 1 ELSE faults
         /\ pending' = IF o = "commits"
                       THEN pending \cup {RepoNames[repoIdx]} ELSE pending
         /\ rst' = IF o = "commits" THEN "pull" ELSE "idle"
         /\ repoIdx' = IF o = "commits" THEN repoIdx ELSE repoIdx + 1
    /\ UNCHANGED <<storeVars, pc, user_config, dry_run, host, repos, update_results, idx,
                   futures, ast, ret, fres, updated_count, backups, hooks,
                   sent, checked, applied, preview, stats, run, hookIdx, bfail>>

\* GitRepository.update runs "git pull"; update_all counts and records a
\* repository whose update returned True.
GitPull ==
    /\ pc = "git_loop"
    /\ repoIdx <= repos
    /\ rst = "pull"
    /\ \E o \in PullOutcomes :
         /\ o # "updated" => faults < MaxFaults
         /\ faults' = IF o # "updated" THEN faults + 1 ELSE faults
         /\ updated_count' = IF o = "updated" THEN updated_count + 1
                             ELSE updated_count
         /\ stats' = IF o = "updated"
                     THEN record_update(stats, RepoNames[repoIdx]) ELSE stats
    /\ rst' = "idle"
    /\ repoIdx' = repoIdx + 1
    /\ UNCHANGED <<storeVars, pc, user_config, dry_run, host, repos, update_results, idx,
                   futures, ast, ret, fres, backups, hooks, sent, checked,
                   applied, preview, pending, run, hookIdx, bfail>>

\* Faulty variant of GitDone: update_all returns the number of repositories
\* it visited.
GitDoneVisited ==
    /\ pc = "git_loop"
    /\ repoIdx > repos
    /\ update_results' = [update_results EXCEPT !["git_repos"] = repos]
    /\ pc' = "posthook"
    /\ UNCHANGED <<storeVars, user_config, dry_run, host, repos, idx, futures, ast, ret,
                   fres, repoIdx, updated_count, backups, hooks,
                   sent, checked, applied, preview, stats, faults,
                   pending, rst, run, hookIdx, bfail>>

\* update_all returns updated_count, stored under "git_repos".
GitDone ==
    /\ pc = "git_loop"
    /\ repoIdx > repos
    /\ update_results' = [update_results EXCEPT !["git_repos"] = updated_count]
    /\ pc' = "posthook"
    /\ UNCHANGED <<storeVars, user_config, dry_run, host, repos, idx, futures, ast, ret,
                   fres, repoIdx, updated_count, backups, hooks,
                   sent, checked, applied, preview, stats, faults,
                   pending, rst, run, hookIdx, bfail>>

(***************************************************************************)
(* update_system: post-update hooks, notification, exits                   *)
(***************************************************************************)

\* "if not dry_run: hook_manager.run_hooks("post-update")".
PostHook ==
    /\ pc = "posthook"
    /\ hookIdx = 0
    /\ IF HooksWanted
       THEN hookIdx' = 1 /\ pc' = pc
       ELSE hookIdx' = 0 /\ pc' = "notify"
    /\ UNCHANGED <<storeVars, user_config, dry_run, host, repos, update_results, idx,
                   futures, ast, ret, fres, repoIdx, updated_count,
                   backups, hooks, sent, checked, applied, preview, stats,
                   faults, pending, rst, run, bfail>>

\* Faulty variant of NotifyWanted: the "if total_updates > 0" is missing.
NotifyWantedAlways == ~dry_run

\* "if not dry_run: ... if total_updates > 0: notification_manager.send(...)".
NotifyWanted == ~dry_run /\ total_updates(update_results) > 0

Notify ==
    /\ pc = "notify"
    /\ sent' = IF NotifyWanted THEN sent + 1 ELSE sent
    /\ pc' = "done"
    /\ UNCHANGED <<storeVars, user_config, dry_run, host, repos, update_results, idx,
                   futures, ast, ret, fres, repoIdx, updated_count,
                   backups, hooks, checked, applied, preview, stats, faults,
                   pending, rst, run, hookIdx, bfail>>

Active == {"backup", "prehook", "submit", "collect", "pool_exit", "seq",
           "seq_run", "git", "git_loop", "posthook", "notify"}

\* KeyboardInterrupt in the main thread.  Raised inside the with-block it
\* first passes through ThreadPoolExecutor.__exit__, which joins the
\* workers; anywhere else it goes straight to the handler.
Interrupt ==
    /\ pc \in Active
    /\ pc' = IF pc \in {"submit", "collect"} THEN "cancel_wait" ELSE "cancelled"
    /\ UNCHANGED <<storeVars, user_config, dry_run, host, repos, update_results, idx,
                   futures, ast, ret, fres, repoIdx, updated_count,
                   backups, hooks, sent, checked, applied, preview, stats, faults,
                   pending, rst, run, hookIdx, bfail>>

\* Faulty variant of CancelWait: the interrupt is dropped once the workers
\* are joined and the run goes on after the with-block.
CancelWaitResumes ==
    /\ pc = "cancel_wait"
    /\ PoolIdle
    /\ pc' = "git"
    /\ UNCHANGED <<storeVars, user_config, dry_run, host, repos, update_results, idx,
                   futures, ast, ret, fres, repoIdx, updated_count,
                   backups, hooks, sent, checked, applied, preview, stats,
                   faults, pending, rst, run, hookIdx, bfail>>

CancelWait ==
    /\ pc = "cancel_wait"
    /\ PoolIdle
    /\ pc' = "cancelled"
    /\ UNCHANGED <<storeVars, user_config, dry_run, host, repos, update_results, idx,
                   futures, ast, ret, fres, repoIdx, updated_count,
                   backups, hooks, sent, checked, applied, preview, stats, faults,
                   pending, rst, run, hookIdx, bfail>>

\* The status the process ends with: sys.exit(0) in the KeyboardInterrupt
\* handler, sys.exit(1) in the "except Exception" handler, and 0 when
\* update_system returns and main comes to its end.
exit_status(p) ==
    CASE p = "cancelled" -> 0
      [] p = "error"     -> 1
      [] p = "done"      -> 0

\* The steps of the main thread other than an interrupt.
Main ==
    \/ Backup \/ PreHook \/ HookScript \/ HookDone
    \/ Submit \/ SubmitDone \/ Collect \/ CollectTimeout \/ CollectDone
    \/ PoolExit
    \/ SeqStep \/ SeqReturn \/ SeqDone
    \/ GitStart \/ GitRepo \/ GitPull \/ GitDone
    \/ PostHook \/ Notify \/ CancelWait

Next ==
    \/ Main
    \/ Interrupt
    \/ \E s \in SourceSet : AdapterCheck(s)
    \/ \E s \in SourceSet : AdapterApply(s)
    \/ \E s \in SourceSet : AdapterHang(s)

Spec == Init /\ [][Next]_vars

\* Every step that can be taken is eventually taken, except that nothing
\* obliges an interrupt to arrive or a command to hang.
FairSpec ==
    /\ Init /\ [][Next]_vars
    /\ WF_vars(Main)
    /\ \A s \in SourceSet : WF_vars(AdapterCheck(s) \/ AdapterApply(s))

\* update_system is invoked a second time, with the same configuration on
\* the same host, after a first invocation returned.  Everything local to
\* the invocation starts afresh; the statistics file and what the first
\* invocation did to the host and to the notification service remain.
\* The second invocation is explored after the first invocations in which
\* no check reported updates.
Rerun ==
    /\ pc = "done"
    /\ run = 1
    /\ pending = {}
    /\ run' = 2
    /\ pc' = "backup"
    /\ update_results' = [k \in Keys |-> IF k = "git_repos" THEN 0 ELSE FALSE]
    /\ idx' = 1
    /\ futures' = <<>>
    /\ ast' = [s \in SourceSet |-> "none"]
    /\ ret' = [s \in SourceSet |-> "none"]
    /\ fres' = [s \in SourceSet |-> "none"]
    /\ repoIdx' = 0
    /\ updated_count' = 0
    /\ rst' = "idle"
    /\ backups' = 0
    /\ hooks' = <<>>
    /\ preview' = {}
    /\ hookIdx' = 0
    /\ bfail' = {}
    /\ UNCHANGED <<storeVars, user_config, dry_run, host, repos, sent, checked, applied,
                   stats, faults, pending>>

TwiceNext == Next \/ Rerun

\* Two invocations of update_system in succession.
TwiceSpec == Init /\ [][TwiceNext]_vars

(***************************************************************************)
(* record_update on the statistics file                                    *)
(***************************************************************************)

\* Bound on the number of record_update calls made one after the other.
MaxCalls == 3

\* The inputs of a parallel run on a host that has every program.
FullParallelRun ==
    /\ user_config = [enable_pacman |-> TRUE, enable_aur |-> TRUE,
                      enable_flatpak |-> TRUE, enable_git_repos |-> TRUE,
                      enable_backups |-> TRUE, parallel_updates |-> TRUE]
    /\ ~dry_run
    /\ host = Programs
    /\ repos = MaxRepos

\* record_update in a pool worker, first statement: "stats =
\* self._load_stats()".
RecordLoad(s) ==
    /\ wst[s] = "call"
    /\ wloc' = [wloc EXCEPT ![s] = load_stats(stats_file)]
    /\ wst' = [wst EXCEPT ![s] = "loaded"]
    /\ UNCHANGED <<runVars, stats_file, stats_before, clock, repo_list,
                   last_call>>

\* record_update in a pool worker, the rest: the local copy is modified
\* and "self._save_stats(stats)" writes it over the file.
RecordSave(s) ==
    /\ wst[s] = "loaded"
    /\ clock' = clock + 1
    /\ stats_file' = save_stats(StatsAfter(wloc[s], s, clock + 1))
    /\ wst' = [wst EXCEPT ![s] = "done"]
    /\ UNCHANGED <<runVars, stats_before, wloc, repo_list, last_call>>

\* The pooled adapters whose update command succeeded are about to call
\* record_update, each in its worker.
PoolStatsInit ==
    /\ UpdateInit /\ FullParallelRun
    /\ stats_file \in InitialFiles
    /\ stats_before = stats_file
    /\ wst \in [SourceSet -> {"none", "call"}]
    /\ wloc = [s \in SourceSet |-> DefaultStats]
    /\ clock = 0
    /\ repo_list = <<>>
    /\ last_call = NoCall

PoolStatsNext ==
    \/ \E s \in SourceSet : RecordLoad(s)
    \/ \E s \in SourceSet : RecordSave(s)

\* The record_update calls of one parallel run.
PoolStatsSpec == PoolStatsInit /\ [][PoolStatsNext]_vars

\* A whole record_update call, made while no other is in progress.
RecordCall(c) ==
    /\ clock < MaxCalls
    /\ clock' = clock + 1
    /\ stats_file' = save_stats(StatsAfter(load_stats(stats_file), c, clock + 1))
    /\ UNCHANGED <<runVars, stats_before, wst, wloc, repo_list, last_call>>

SeqStatsInit ==
    /\ UpdateInit /\ FullParallelRun
    /\ stats_file \in InitialFiles
    /\ stats_before = stats_file
    /\ wst = [s \in SourceSet |-> "none"]
    /\ wloc = [s \in SourceSet |-> DefaultStats]
    /\ clock = 0
    /\ repo_list = <<>>
    /\ last_call = NoCall

SeqStatsNext == \E c \in Components : RecordCall(c)

\* record_update calls made one after the other.
SeqStatsSpec == SeqStatsInit /\ [][SeqStatsNext]_vars

(***************************************************************************)
(* add_repo and remove_repo on the repos file                              *)
(***************************************************************************)

\* "sysup add-repo <path>".
AddRepo ==
    /\ \E p \in RawPaths :
         /\ repo_list' = add_repo(repo_list, p)
         /\ last_call' = CallRecord("add", p, repo_list, last_call)
    /\ UNCHANGED <<runVars, stats_file, stats_before, wst, wloc, clock>>

\* "sysup remove-repo <path>".
RemoveRepo ==
    /\ \E p \in RawPaths :
         /\ repo_list' = remove_repo(repo_list, p)
         /\ last_call' = CallRecord("remove", p, repo_list, last_call)
    /\ UNCHANGED <<runVars, stats_file, stats_before, wst, wloc, clock>>

ReposInit ==
    /\ UpdateInit /\ FullParallelRun
    /\ stats_file = NoStatsFile
    /\ stats_before = NoStatsFile
    /\ wst = [s \in SourceSet |-> "none"]
    /\ wloc = [s \in SourceSet |-> DefaultStats]
    /\ clock = 0
    /\ repo_list \in InitialLists
    /\ last_call = NoCall

ReposNext == AddRepo \/ RemoveRepo

\* Any sequence of add_repo and remove_repo calls.
ReposSpec == ReposInit /\ [][ReposNext]_vars

(***************************************************************************)
(* Properties                                                              *)
(***************************************************************************)

NoRecord == \A c \in Components : stats[c] = 0

NoAdapterStarted == \A s \in SourceSet : ast[s] = "none"

\* C1: in a run with dry_run = TRUE, whatever the configuration (parallel
\* updates included), no adapter update is called and no update command is
\* run, update_all is never entered, and create_backup, run_hooks, send and
\* record_update are never invoked.
C1_DryRunLaw ==
    dry_run =>
        /\ NoAdapterStarted
        /\ applied = {}
        /\ pc # "git_loop" /\ repoIdx = 0 /\ updated_count = 0
        /\ backups = 0
        /\ hooks = <<>>
        /\ sent = 0
        /\ NoRecord

\* A dry run with parallel updates, backups and every source enabled has
\* completed and printed its lines.
C1_Witness ==
    /\ dry_run /\ pc = "done"
    /\ user_config.parallel_updates /\ user_config.enable_backups
    /\ preview = SourceSet \cup {RepoNames[k] : k \in 1..MaxRepos}

\* C2 (as claimed): at the end of a dry run has_updates was invoked on every
\* enabled, available adapter, and "Would update" was printed only for
\* adapters whose check was invoked.
C2_DryRunChecks ==
    (dry_run /\ pc = "done") =>
        /\ \A s \in SourceSet : Selected(s) => s \in checked
        /\ (preview \cap SourceSet) \subseteq checked

PhaseRank(p) ==
    CASE p = "backup" -> 1
      [] p = "prehook" -> 2
      [] p \in {"submit", "collect", "pool_exit", "seq", "seq_run",
                "git", "git_loop"} -> 3
      [] p = "posthook" -> 4
      [] p = "notify" -> 5
      [] p \in {"done", "error", "cancelled", "cancel_wait"} -> 6

IsPrefix(a, b) == Len(a) <= Len(b) /\ \A i \in 1..Len(a) : a[i] = b[i]

C3_Order ==
    \* run_hooks: at most once per phase name, pre before post
    /\ IsPrefix(hooks, <<"pre-update", "post-update">>)
    \* backup and pre-update hooks precede every adapter
    /\ pc \in {"backup", "prehook"} =>
         NoAdapterStarted /\ repoIdx = 0 /\ sent = 0
    /\ pc = "backup" => backups = 0 /\ hooks = <<>>
    /\ (~NoAdapterStarted \/ repoIdx > 0) /\ ~dry_run => Len(hooks) >= 1
    \* post-update hooks follow every adapter and the repository batch
    /\ Len(hooks) = 2 =>
         /\ \A s \in SourceSet : ast[s] \in {"none", "done"}
         /\ PhaseRank(pc) >= 5
    \* the notification follows the post-update hooks
    /\ sent > 0 => Len(hooks) = 2 /\ pc = "done"
    /\ sent <= 1 /\ backups <= 1

C3_Step ==
    /\ PhaseRank(pc) <= PhaseRank(pc')
    /\ backups' # backups => pc = "backup"
    /\ hooks' # hooks => pc \in {"prehook", "posthook"}
    /\ sent' # sent => pc = "notify"

\* C3: the phases of a run follow the order Backup, PreHook, Execution,
\* PostHook, Notify, Done and never go back; pre-update hooks run after the
\* backup step and before any adapter, post-update hooks after every adapter
\* and the repository batch have finished, the notification after the
\* post-update hooks, and run_hooks is invoked at most twice, once per name.
C3_PhaseOrder == []C3_Order /\ [][C3_Step]_vars

\* A parallel run in which a worker outlived the wait on its future has
\* gone through every phase.
C3_Witness ==
    /\ pc = "done" /\ UseParallel
    /\ backups = 1 /\ hooks = <<"pre-update", "post-update">> /\ sent = 1
    /\ \E s \in SourceSet : fres[s] = "timeout" /\ ast[s] = "done"
    /\ update_results["git_repos"] > 0


Helpers == {"yay", "paru"}

\* The pooled sources an update_results key reports.
SourcesOf(k) == {s \in SourceSet : KeyOf(s) = k}

\* The adapter s ran and its update did not succeed as seen by the run: the
\* update command failed or raised, or the wait on its future timed out.
Failed(s) ==
    \/ ret[s] = "exc"
    \/ ret[s] = "false" /\ s \in applied
    \/ fres[s] = "timeout"

\* The positions of the main thread after the with-block.
AfterPool == {"git", "git_loop", "posthook", "notify", "done"}

\* C4 (as claimed): in the final result every enabled, available source
\* whose apply failed, raised or timed out is recorded as updated = FALSE.
C4_FailedRecordedFalse ==
    pc = "done" =>
        \A s \in SourceSet :
            Selected(s) /\ Failed(s) => update_results[KeyOf(s)] = FALSE

\* C4 (amended): update_results always has exactly the four entries
\* pacman, aur, flatpak and git_repos, in both modes; every enabled,
\* available source is reported under exactly one of them (yay and paru
\* share "aur"); an entry is TRUE only if a source reported under it returned
\* TRUE and, in parallel mode, was collected before its wait timed out.
C4_Entries ==
    /\ DOMAIN update_results = Keys
    /\ Cardinality(DOMAIN update_results) = 4
    /\ \A s \in SourceSet : Cardinality({k \in Keys : s \in SourcesOf(k)}) = 1
    /\ update_results["git_repos"] \in 0..repos
    /\ \A k \in Keys \ {"git_repos"} :
         /\ update_results[k] \in BOOLEAN
         /\ update_results[k] =>
              \E s \in SourcesOf(k) :
                  /\ Selected(s) /\ ret[s] = "true"
                  /\ UseParallel => fres[s] = "true"

\* A run ended in which yay's update command failed and paru updated: the
\* shared "aur" entry is TRUE.
C4_Witness ==
    /\ pc = "done"
    /\ Failed("yay") /\ ret["paru"] = "true"
    /\ update_results["aur"]

\* C5: in parallel mode an exception raised by a pooled adapter's update is
\* caught where its future is collected: the run does not take the error
\* exit, every submitted adapter runs to completion and every future is
\* collected before the with-block is left, and a run that ends has run the
\* repository batch, the post-update hooks and the notification step.
C5_ExceptionContained ==
    (UseParallel /\ \E s \in SourceSet : ret[s] = "exc") =>
        /\ pc # "error"
        /\ pc \in AfterPool =>
             \A i \in 1..Len(futures) :
                 /\ ast[futures[i]] = "done"
                 /\ fres[futures[i]] \in {ret[futures[i]], "timeout"}
        /\ pc = "done" =>
             /\ user_config.enable_git_repos => repoIdx = repos + 1
             /\ hooks = <<"pre-update", "post-update">>
             /\ sent = (IF total_updates(update_results) > 0 THEN 1 ELSE 0)

\* A parallel run ended in which pacman's update raised while flatpak
\* updated, the repositories were visited and the notification was sent.
C5_Witness ==
    /\ pc = "done" /\ UseParallel
    /\ fres["pacman"] = "exc" /\ fres["flatpak"] = "true"
    /\ repos > 0 /\ repoIdx = repos + 1
    /\ sent = 1

\* C6 (as claimed): no failure of an adapter ends the run in the error exit.
C6_NoErrorExit == pc # "error"

C7_State ==
    /\ \A s \in SourceSet :
         fres[s] = "timeout" =>
           /\ UseParallel
           /\ s \notin Helpers => update_results[KeyOf(s)] = FALSE
           /\ s \in Helpers /\ update_results["aur"] =>
                \E h \in Helpers \ {s} : fres[h] = "true"
    \* submitted once: no second attempt
    /\ \A i, j \in 1..Len(futures) : futures[i] = futures[j] => i = j
    \* everything else is collected in the same run
    /\ UseParallel /\ pc \in AfterPool =>
         \A i \in 1..Len(futures) :
             fres[futures[i]] \in {ret[futures[i]], "timeout"}

C7_Step ==
    \A s \in SourceSet :
        /\ (fres[s] # "timeout" /\ fres'[s] = "timeout") =>
             /\ ast' = ast /\ ret' = ret /\ futures' = futures
             /\ pc' = "collect" /\ idx' = idx + 1
        /\ fres[s] = "timeout" => fres'[s] = "timeout"

\* C7: in parallel mode a pooled adapter that has not returned when the
\* wait on its future expires contributes nothing to update_results (its
\* entry stays FALSE unless the other helper sets "aur"), its worker is left
\* running untouched and it is not submitted again, and the loop goes on to
\* collect every other future.
C7_Timeout == []C7_State /\ [][C7_Step]_vars

\* A parallel run ended in which the wait on yay timed out although yay
\* later updated, and the three other adapters were collected.
C7_Witness ==
    /\ pc = "done"
    /\ fres["yay"] = "timeout" /\ ret["yay"] = "true"
    /\ fres["pacman"] = "true" /\ fres["paru"] = "false"
    /\ fres["flatpak"] = "true"
    /\ ~update_results["aur"]

\* C8 (as claimed): once the collecting loop of a parallel run has started,
\* the run leaves the with-block.
C8_ExecutionBounded ==
    (UseParallel /\ pc = "collect") ~> (pc \notin {"collect", "pool_exit"})

\* C9: in parallel mode the repository batch and every later phase start
\* only after every future was collected and the pool was released: no
\* pooled adapter is still running then.
C9_NoOverlap ==
    (UseParallel /\ pc \in AfterPool) =>
        /\ \A s \in SourceSet : ast[s] \in {"none", "done"}
        /\ \A i \in 1..Len(futures) : fres[futures[i]] # "none"
        /\ idx = Len(futures) + 1

\* The repository batch is running after a pooled adapter outlived the
\* wait on its future.
C9_Witness ==
    /\ UseParallel /\ pc = "git_loop" /\ repoIdx = 2
    /\ \E s \in SourceSet : fres[s] = "timeout" /\ ast[s] = "done"

\* What the collecting loop saw for a source: its update returned TRUE.
Observed(s) == fres[s] = "true"

Count(b) == IF b THEN 1 ELSE 0

\* C10: in parallel mode update_results is a function of what each future
\* produced, attributed by source name: whatever the order in which the
\* workers finish, pacman and flatpak hold their own adapter's result, "aur"
\* holds the or of the helpers' results, and the total is their count plus
\* the number of updated repositories.
C10_Aggregate ==
    UseParallel =>
        /\ \A s \in SourceSet :
               fres[s] \in {"true", "false", "exc"} => fres[s] = ret[s]
        /\ update_results["pacman"] = Observed("pacman")
        /\ update_results["aur"] = (Observed("yay") \/ Observed("paru"))
        /\ update_results["flatpak"] = Observed("flatpak")
        /\ pc \in {"posthook", "notify", "done"} =>
               total_updates(update_results) =
                   Count(Observed("pacman"))
                   + Count(Observed("yay") \/ Observed("paru"))
                   + Count(Observed("flatpak"))
                   + (IF user_config.enable_git_repos THEN updated_count ELSE 0)

\* A parallel run ended in which flatpak and the helpers were collected
\* while pacman, submitted first, was still running.
C10_Witness ==
    /\ pc = "done" /\ UseParallel
    /\ fres["pacman"] = "timeout" /\ ret["pacman"] = "true"
    /\ fres["yay"] = "false" /\ fres["paru"] = "true"
    /\ fres["flatpak"] = "true"
    /\ update_results["aur"] /\ ~update_results["pacman"]
    /\ total_updates(update_results) = 2 + updated_count

\* What the adapter's update() produced: it returned TRUE.
Returned(s) == ret[s] = "true"

\* C11 (as claimed): the outcome of a run is the same function of the
\* configuration and of what each adapter's update did in sequential and in
\* parallel mode: once the execution phase is over every flag is the
\* adapter's own result ("aur" the or of the helpers'), and a run takes the
\* error exit only for a reason that does not depend on the mode.
C11_ModesAgree ==
    /\ (pc \in {"posthook", "notify", "done"} /\ ~dry_run) =>
         /\ update_results["pacman"] = Returned("pacman")
         /\ update_results["aur"] = (Returned("yay") \/ Returned("paru"))
         /\ update_results["flatpak"] = Returned("flatpak")
    /\ pc = "error" =>
         \E s \in SourceSet : Selected(s) /\ CtorRaises(s)

\* The fixed order of the sources: system packages, helper yay, helper
\* paru, sandbox packages.
Rank(s) ==
    CASE s = "pacman" -> 1 [] s = "yay" -> 2 [] s = "paru" -> 3
      [] s = "flatpak" -> 4

\* Progress of an adapter's update() call, as a number.
AstRank(a) ==
    CASE a = "none" -> 0 [] a = "check" -> 1 [] a = "apply" -> 2
      [] a = "hung" -> 3 [] a = "done" -> 3

InProgress(s) == ast[s] \in {"check", "apply", "hung"}

C12_State ==
    \* one adapter at a time
    /\ Cardinality({s \in SourceSet : InProgress(s)}) <= 1
    \* fixed order, each to completion before the next starts
    /\ \A s, t \in SourceSet :
         (Rank(s) < Rank(t) /\ ast[t] # "none") =>
             /\ ast[s] \in {"none", "done"}
             /\ Selected(s) => ast[s] = "done"
    \* the repository batch comes last
    /\ (pc \in AfterPool \/ repoIdx > 0) =>
         \A s \in SourceSet :
             /\ ~InProgress(s)
             /\ (Selected(s) /\ ~dry_run) => ast[s] = "done"
    \* only selected adapters run
    /\ \A s \in SourceSet : ast[s] # "none" => Selected(s) /\ ~dry_run

C12_Step ==
    \A s \in SourceSet :
        \* an adapter is started once and never again
        /\ AstRank(ast[s]) <= AstRank(ast'[s])
        /\ (ast'[s] = "check" /\ ast[s] # "check") =>
               ast[s] = "none" /\ pc = "seq" /\ pc' = "seq_run"
        /\ (s \in checked' /\ s \notin checked) => ast[s] = "check"
        /\ (s \in applied' /\ s \notin applied) => ast[s] = "apply"

\* C12: in sequential mode the adapters run one at a time in the order
\* pacman, yay, paru, flatpak, repository batch: an adapter's check or apply
\* starts only after every earlier selected adapter has completed, and each
\* enabled, available adapter (each helper in particular) is run exactly once.
C12_Sequential ==
    /\ [](~UseParallel => C12_State)
    /\ [][~UseParallel => C12_Step]_vars

\* A sequential run is applying flatpak after pacman and both helpers, in
\* that order, have completed.
C12_Witness ==
    /\ ~UseParallel /\ pc = "seq_run"
    /\ ast["flatpak"] = "apply"
    /\ ast["pacman"] = "done" /\ ret["yay"] = "true" /\ ret["paru"] = "false"
    /\ {"pacman", "yay", "paru"} \subseteq checked

RepoSet == {RepoNames[k] : k \in 1..Len(RepoNames)}

C13_State ==
    \* the update command is run only after a check that reported updates
    /\ applied \subseteq pending
    /\ (pending \cap SourceSet) \subseteq checked
    /\ \A s \in SourceSet :
         /\ ast[s] \in {"apply", "hung"} => s \in pending
         \* no pending updates: no update command, no record, returns False
         /\ (s \in checked /\ s \notin pending /\ ast[s] = "done") =>
                /\ s \notin applied
                /\ ret[s] \in {"false", "exc"}
                /\ stats[s] = 0
                /\ update_results[KeyOf(s)] => \E h \in Helpers \ {s} : Returned(h)
    \* repositories: "git pull" only after has_new_commits returned True
    /\ rst = "pull" =>
         pc \in {"git_loop", "cancelled"} /\ RepoNames[repoIdx] \in pending
    /\ \A c \in RepoSet : stats[c] > 0 => c \in pending
    /\ updated_count <= Cardinality(pending \cap RepoSet)

C13_Step ==
    /\ \A s \in SourceSet :
         /\ (s \in applied' /\ s \notin applied) =>
                s \in checked /\ s \in pending /\ ast[s] = "apply"
         /\ (s \in checked' /\ s \notin checked) => s \notin applied
         /\ stats'[s] # stats[s] => s \in pending /\ ast[s] = "apply"
    /\ (updated_count' > updated_count \/ \E c \in RepoSet : stats'[c] # stats[c])
         => rst = "pull"
    /\ (rst = "idle" /\ rst' = "idle") =>
         updated_count' <= updated_count

\* C13: within one adapter the check (has_updates, has_new_commits) completes
\* before the update command is attempted, and when the check reports no
\* pending updates the update command is never run, nothing is recorded and
\* the adapter returns FALSE; for pacman, the helpers, flatpak and the
\* repositories, in both execution modes.
C13_CheckBeforeApply == []C13_State /\ [][C13_Step]_vars

\* A parallel run ended in which pacman's check reported nothing and its
\* update command was never run, while flatpak was checked and updated, one
\* repository had no new commits and another was pulled.
C13_Witness ==
    /\ pc = "done" /\ UseParallel
    /\ "pacman" \in checked /\ "pacman" \notin applied
    /\ fres["pacman"] = "false"
    /\ "flatpak" \in applied /\ fres["flatpak"] = "true"
    /\ repos = 2 /\ pending \cap RepoSet = {"repo2"} /\ updated_count = 1

\* The result the run obtained from a helper's update and merged: in
\* parallel mode what future.result returned, in sequential mode what the
\* call returned once control is back in update_system.
Got(h) ==
    IF UseParallel THEN fres[h] = "true"
    ELSE ret[h] = "true" /\ ~(pc = "seq_run" /\ idx = Rank(h))

\* The helpers' contribution to the total.
HelperPart ==
    total_updates(update_results) - Count(update_results["pacman"])
    - Count(update_results["flatpak"]) - update_results["git_repos"]

\* C14: the "aur" flag is TRUE iff at least one helper's update returned
\* TRUE to the run, whichever helper it was and whichever was merged first,
\* and the helpers contribute 1 to the total when at least one of them
\* updated (never 2) and 0 otherwise, in both execution modes.
C14_OrMerge ==
    (~dry_run /\ pc \in Active \cup {"done"}) =>
        /\ update_results["aur"] = (Got("yay") \/ Got("paru"))
        /\ HelperPart = Count(Got("yay") \/ Got("paru"))
        /\ (Got("yay") # Got("paru")) => HelperPart = 1
        /\ (Got("yay") /\ Got("paru")) => HelperPart = 1

\* A sequential run ended in which yay updated and paru, merged after it,
\* did not: the helpers count for 1.
C14_Witness ==
    /\ pc = "done" /\ ~UseParallel
    /\ ret["yay"] = "true" /\ ret["paru"] = "false"
    /\ "paru" \in checked
    /\ update_results["aur"] /\ HelperPart = 1

\* Number of tracked repositories whose update returned TRUE in update_all.
RepoUpdated == Cardinality({c \in RepoSet : stats[c] > 0})

\* C15: the total the notification step uses is 1 if pacman updated, plus 1
\* if the merged helper flag is TRUE, plus 1 if flatpak updated, plus the
\* number of tracked repositories whose update returned TRUE, and the
\* notification is sent exactly when that total is positive.
C15_Total ==
    (~dry_run /\ pc \in {"notify", "done"}) =>
        /\ total_updates(update_results) =
               Count(Got("pacman")) + Count(Got("yay") \/ Got("paru"))
               + Count(Got("flatpak")) + RepoUpdated
        /\ pc = "done" =>
               sent = Count(Count(Got("pacman"))
                            + Count(Got("yay") \/ Got("paru"))
                            + Count(Got("flatpak")) + RepoUpdated > 0)

\* A run ended in which pacman, flatpak and two repositories were updated
\* and the helpers were not: the total is 4.
C15_Witness ==
    /\ pc = "done" /\ ~dry_run
    /\ update_results["pacman"] /\ update_results["flatpak"]
    /\ "yay" \in checked /\ ~update_results["aur"]
    /\ RepoUpdated = 2
    /\ total_updates(update_results) = 4 /\ sent = 1

C16_State ==
    /\ sent <= 1
    /\ pc = "done" =>
         (sent = 1 <=> (~dry_run /\ total_updates(update_results) > 0))
    /\ pc \in {"cancelled", "cancel_wait", "error"} => sent = 0
    /\ pc \in Active => sent = 0

C16_Step ==
    sent' # sent => pc = "notify" /\ pc' = "done" /\ sent' = sent + 1

C17_Idempotent ==
    pending = {} =>
        /\ applied = {}
        /\ \A s \in SourceSet : ast[s] \notin {"apply", "hung"}
        /\ rst = "idle" /\ updated_count = 0
        /\ NoRecord
        /\ sent = 0
        /\ total_updates(update_results) = 0

\* A second parallel invocation ended after a first one, every adapter
\* and every repository having been checked in it, with nothing pending.
C17_Witness ==
    /\ run = 2 /\ pc = "done" /\ UseParallel
    /\ pending = {}
    /\ \A s \in SourceSet : fres[s] = "false"
    /\ repos = MaxRepos /\ repoIdx = repos + 1
    /\ hooks = <<"pre-update", "post-update">>

\* The source is enabled in the configuration and its program is on the host
\* (for pacman the program is the update checker, checkupdates).
Wanted(s) ==
    CASE s = "pacman"  -> user_config.enable_pacman /\ "checkupdates" \in host
      [] s = "yay"     -> user_config.enable_aur /\ "yay" \in host
      [] s = "paru"    -> user_config.enable_aur /\ "paru" \in host
      [] s = "flatpak" -> user_config.enable_flatpak /\ "flatpak" \in host

\* No source reported under the key k is enabled and available.
KeyOmitted(k) ==
    IF k = "git_repos" THEN ~user_config.enable_git_repos
    ELSE \A s \in SourcesOf(k) : ~Wanted(s)

C19_AssemblyNeverFails ==
    (\A s \in SourceSet : ret[s] # "exc") => pc # "error"

Cancelled == {"cancel_wait", "cancelled"}

C20_State ==
    /\ pc \in Cancelled => sent = 0
    \* an interrupt inside the with-block: no post-update hooks
    /\ pc = "cancel_wait" => UseParallel /\ Len(hooks) <= 1
    /\ (pc = "cancelled" /\ \E s \in SourceSet : InProgress(s)) =>
         Len(hooks) <= 1 /\ repoIdx = 0

C20_Step ==
    \* the interrupt itself runs nothing
    /\ (pc \in Active /\ pc' \in Cancelled) =>
         /\ hooks' = hooks /\ sent' = sent /\ backups' = backups
         /\ update_results' = update_results /\ ast' = ast
    \* after it no phase is started and no further adapter or repository
    /\ pc \in Cancelled =>
         /\ pc' \in Cancelled
         /\ hooks' = hooks /\ sent' = sent /\ backups' = backups
         /\ update_results' = update_results /\ futures' = futures
         /\ repoIdx' = repoIdx /\ rst' = rst
         /\ updated_count' = updated_count /\ preview' = preview
         /\ \A s \in SourceSet : ast[s] = "none" => ast'[s] = "none"
         /\ ~UseParallel => ast' = ast /\ stats' = stats
    /\ pc = "cancelled" => pc' = "cancelled"

\* C20: an interrupt in any phase takes the run to the cancelled exit
\* without starting any later phase: after it no backup, hook, adapter,
\* repository update or notification is started, and an interrupt during
\* the execution phase is never followed by post-update hooks or a
\* notification.
C20_Cancellation == []C20_State /\ [][C20_Step]_vars

\* A parallel run was interrupted while its futures were being collected:
\* a finished adapter's result was never collected, only the pre-update
\* hooks have run and nothing was sent.
C20_Witness ==
    /\ pc = "cancelled" /\ UseParallel
    /\ \E s \in SourceSet : ret[s] = "true" /\ fres[s] = "none"
    /\ \E s \in SourceSet : fres[s] = "true"
    /\ hooks = <<"pre-update">> /\ sent = 0 /\ repoIdx = 0

\* C21 (as claimed): an interrupted parallel run never waits for pooled
\* adapters: it is not held before the cancelled exit while an adapter
\* submitted to the pool is still running.
C21_NoWaitOnCancel ==
    pc = "cancel_wait" => \A s \in SourceSet : ~InProgress(s)

\* C22 (as claimed): a cancelled run ends with a non-zero exit status that
\* differs from the status of a run that completed.
C22_CancelStatus ==
    pc = "cancelled" =>
        /\ exit_status(pc) # 0
        /\ exit_status(pc) # exit_status("done")

C23_State ==
    /\ backups <= 1
    /\ backups = 1 => user_config.enable_backups /\ ~dry_run
    \* once the backup step is passed the backup was made iff it was wanted
    /\ (pc \notin {"backup", "cancelled"} \/ Len(hooks) > 0
        \/ ~NoAdapterStarted \/ repoIdx > 0) =>
         backups = Count(user_config.enable_backups /\ ~dry_run)

C23_Step ==
    backups' # backups =>
        /\ backups' = backups + 1
        /\ pc = "backup" /\ pc' = "prehook"
        /\ hooks = <<>> /\ NoAdapterStarted /\ repoIdx = 0 /\ preview = {}

\* C23: update_system invokes create_backup at most once per run, exactly
\* when backups are enabled and the run is not a dry run, and only before
\* any hook, adapter or repository update.
C23_BackupOnce == []C23_State /\ [][C23_Step]_vars

\* A sequential run is inside its first adapter after the backup and the
\* pre-update hooks.
C23_Witness ==
    /\ backups = 1 /\ hooks = <<"pre-update">>
    /\ pc = "seq_run" /\ idx = 1 /\ ast["pacman"] = "check"

C24_State ==
    \* the error exit is never the effect of a backup or hook failure
    /\ pc = "error" =>
         \/ \E s \in SourceSet : ret[s] = "exc"
         \/ user_config.enable_pacman /\ "checkupdates" \notin host
    /\ hookIdx \in 0..(MaxScripts + 1)
    /\ hookIdx > 0 => pc \in {"prehook", "posthook", "cancelled"}

C24_Step ==
    \* the step that meets the failure goes on with the loop or the pipeline
    /\ bfail' # bfail =>
         /\ pc' \notin {"error", "cancelled", "cancel_wait"}
         /\ pc = "backup" => pc' = "prehook"
         /\ pc # "backup" => pc' = pc /\ hookIdx' = hookIdx + 1
    \* scripts are run one after the other, none is skipped
    /\ (hookIdx \in 1..MaxScripts /\ hookIdx' # hookIdx) =>
         hookIdx' = hookIdx + 1
    \* run_hooks returns after the last script only
    /\ hooks' # hooks =>
         /\ hookIdx = MaxScripts + 1
         /\ pc' = (IF pc = "posthook" THEN "notify"
                   ELSE IF UseParallel THEN "submit" ELSE "seq")

\* C24: a backup that cannot be created and a hook script that exits
\* non-zero, times out or cannot be executed never abort the run: the
\* remaining scripts of the phase are still run, one after the other, the
\* pipeline goes on to the next phase, and the error exit is never taken
\* because of them.
C24_BestEffort == []C24_State /\ [][C24_Step]_vars

\* A run reached its end, notification included, although a pre-update
\* hook script failed.
C24_Witness ==
    /\ pc = "done" /\ bfail = {"pre-update"}
    /\ hooks = <<"pre-update", "post-update">>
    /\ backups = 1 /\ sent = 1

\* The positions of the main thread in the execution phase.
Execution == {"submit", "collect", "pool_exit", "seq", "seq_run", "git",
              "git_loop"}

C25_State ==
    \* once per source whose update returned TRUE, never for another
    /\ \A s \in SourceSet : stats[s] = Count(ret[s] = "true")
    /\ \A c \in RepoSet : stats[c] <= 1
    /\ RepoUpdated = updated_count
    /\ pc \in {"backup", "prehook"} => NoRecord

C25_Step ==
    \* the call is made by the adapter's update itself, after its command
    /\ \A s \in SourceSet :
         stats'[s] # stats[s] =>
             /\ ast[s] = "apply" /\ ast'[s] = "done" /\ ret'[s] = "true"
             /\ pc \in {"submit", "collect", "pool_exit", "seq_run",
                        "cancel_wait", "cancelled"}
    \* and by update_all inside its loop
    /\ \A c \in RepoSet :
         stats'[c] # stats[c] =>
             /\ pc = "git_loop" /\ rst = "pull" /\ c = RepoNames[repoIdx]
             /\ updated_count' = updated_count + 1

C26_Step ==
    \* the loop starts at the first tracked path
    /\ (pc = "git" /\ pc' = "git_loop") => repoIdx' = 1 /\ updated_count' = 0
    \* whatever happens to a path, the next one visited is its successor
    /\ (pc = "git_loop" /\ pc' = "git_loop") =>
           \/ repoIdx' = repoIdx + 1 /\ rst' = "idle"
           \/ repoIdx' = repoIdx /\ rst = "idle" /\ rst' = "pull"
    \* only a cancellation ends the batch before the last path
    /\ (pc = "git_loop" /\ pc' \notin {"git_loop", "cancelled"}) =>
           /\ repoIdx = repos + 1
           /\ pc' = "posthook"
           /\ update_results'["git_repos"] = RepoUpdated
    \* a path is counted exactly when its update returned TRUE
    /\ (pc = "git_loop" /\ updated_count' # updated_count) =>
           /\ updated_count' = updated_count + 1
           /\ rst = "pull"
           /\ stats'[RepoNames[repoIdx]] = stats[RepoNames[repoIdx]] + 1

\* C26: in update_all a tracked path that is missing, invalid or whose
\* update raises is skipped without ending the batch: the paths are visited
\* one after the other in list order, the loop is left only after the last
\* one, and the count returned is the number of repositories whose update
\* returned TRUE.
C26_BatchContinues ==
    /\ [](pc = "git_loop" => repoIdx \in 1..(repos + 1)
                             /\ updated_count = RepoUpdated)
    /\ [][C26_Step]_vars

\* No adapter ran and nothing failed before the repositories; the first of
\* two repositories raised, the second was still visited and updated, and
\* update_all returned 1.
C26_Witness ==
    /\ pc = "posthook" /\ repos = 2
    /\ \A s \in SourceSet : ast[s] = "none"
    /\ faults = 1 /\ bfail = {}
    /\ pending = {RepoNames[2]}
    /\ stats[RepoNames[1]] = 0 /\ stats[RepoNames[2]] = 1
    /\ update_results["git_repos"] = 1

\* The pooled adapters that called record_update, once all calls are over.
Recorders == {s \in SourceSet : wst[s] = "done"}

\* History entries written by the calls that are followed.
NewEntries(f) ==
    {i \in 1..Len(f.update_history) : f.update_history[i].timestamp > 0}

\* C27 (as claimed): when k pooled adapters have each completed their
\* record_update call, the statistics file holds a total increased by
\* exactly k and k new history entries, whatever the interleaving of the
\* workers' load and save steps.
C27_NoLostUpdates ==
    (\A s \in SourceSet : wst[s] \in {"none", "done"}) =>
        /\ stats_file.total_updates =
               stats_before.total_updates + Cardinality(Recorders)
        /\ Cardinality(NewEntries(stats_file)) = Cardinality(Recorders)

\* C28 (as claimed): in a run that is not a dry run and ends normally,
\* every source whose update command completed successfully during the run
\* is counted as updated in update_results, and a notification was sent if
\* there is such a source; this includes a pooled adapter that succeeded
\* after the wait on its future had timed out.
C28_ReportAgrees ==
    (pc = "done" /\ ~dry_run) =>
        /\ \A s \in SourceSet :
             ret[s] = "true" => update_results[KeyOf(s)] = TRUE
        /\ (\E s \in SourceSet : ret[s] = "true") => sent = 1

NoDuplicate(l) == \A i, j \in 1..Len(l) : l[i] = l[j] => i = j

Tracked(x, l) == \E i \in 1..Len(l) : l[i] = x

Without(l, x) == SelectSeq(l, LAMBDA y : y # x)

\* C29: starting from a duplicate-free list, after any sequence of add_repo
\* and remove_repo calls the stored list has no duplicate path; add_repo
\* appends the normalised path at the end, or leaves the list unchanged
\* when the path is invalid or already tracked; remove_repo takes the
\* normalised path out and keeps the order of the others, or leaves the
\* list unchanged when the path is not tracked; and add_repo(p) of an
\* untracked valid p followed by remove_repo(p) restores the list.
C29_ListLaws ==
    /\ NoDuplicate(repo_list)
    /\ last_call.op = "add" =>
          IF resolve(last_call.path) \in {"/src/a", "/home/u/b"}
             /\ ~Tracked(resolve(last_call.path), last_call.before)
          THEN repo_list = last_call.before \o <<resolve(last_call.path)>>
          ELSE repo_list = last_call.before
    /\ last_call.op = "remove" =>
          IF Tracked(resolve(last_call.path), last_call.before)
          THEN repo_list = Without(last_call.before, resolve(last_call.path))
          ELSE repo_list = last_call.before
    /\ ( /\ last_call.op = "remove" /\ last_call.prev_op = "add"
         /\ resolve(last_call.path) = resolve(last_call.prev_path)
         /\ last_call.before # last_call.prev_before )
       => repo_list = last_call.prev_before

\* "~/b" was added to a list that tracked two other paths, one of them no
\* longer on disk, and was then removed under its resolved name: the list
\* is the one before the two calls.
C29_Witness ==
    /\ last_call.prev_op = "add" /\ last_call.prev_path = "~/b"
    /\ last_call.prev_before = <<"/src/gone", "/src/a">>
    /\ last_call.before = <<"/src/gone", "/src/a", "/home/u/b">>
    /\ last_call.op = "remove" /\ last_call.path = "/home/u/b"
    /\ repo_list = <<"/src/gone", "/src/a">>

====
